---- MODULE Spec2Model ----
(***************************************************************************)
(* The MCP proxy/relay of etz-mcp-inspector.                               *)
(*                                                                         *)
(* Spec   : McpProxyHandler of src/src/controllers/mcp.controller.ts, the  *)
(*          relay built on an McpTransport (StdioClientTransport).         *)
(* SpecReg: the same controller with POST /mcp-proxy/message and the      *)
(*          graceful shutdown.                                             *)
(* SpecOpen: the same controller, Open over every kind of query parameter. *)
(* SpecCp : McpProxyHandler of src/src/services/mcp-communication.ts, the  *)
(*          relay built on child_process.spawn.                            *)
(*                                                                         *)
(* One action is one handler of the Node event loop, run to its end or to  *)
(* its first await.  What the runtime and the transport decide (when a     *)
(* promise settles, when a peer closes, whether response.writable drops)   *)
(* is a choice of the environment.                                         *)
(***************************************************************************)
EXTENDS Integers, Sequences, FiniteSets, TLC

\* ------------------------------------------------------------- bounds
MaxSessions == 1
MaxMsgs == 2
MaxSubmits == 1
MaxCalls == 2
MaxBytes == 3
MaxChunk == 3
MaxPeers == 2

\* The sessions of the specifications that follow one session's whole life.
Ids == 1..MaxSessions
\* The sessions there are; those outside Ids are opened only where several
\* sessions are followed side by side.
AllIds == 1..MaxPeers
NoId == 0

\* ------------------------------------------------------ configuration
\* The query parameters of an Open, by the shape the handler tests.
Commands == {"absent", "empty", "cmd"}
ArgsParams == {"absent", "notJson", "arrayOfStrings", "arrayOfNumbers", "object"}
EnvParams == {"absent", "notJson", "object", "array", "null", "number"}
Transports == {"absent", "stdio", "STDIO", "sse"}

GoodConfig == [command |-> "cmd", args |-> "arrayOfStrings", env |-> "object", transport |-> "stdio"]

\* The configurations an Open is tried with: the good one, and the good one
\* with one parameter changed.
Configs ==
    {[GoodConfig EXCEPT !.command = c] : c \in Commands}
    \cup {[GoodConfig EXCEPT !.args = a] : a \in ArgsParams}
    \cup {[GoodConfig EXCEPT !.env = e] : e \in EnvParams}
    \cup {[GoodConfig EXCEPT !.transport = t] : t \in Transports}

\* The configurations of the sessions whose whole life is followed: the good
\* one, one that fails validation and one that fails in the try block.
MainConfigs ==
    {GoodConfig, [GoodConfig EXCEPT !.command = "empty"],
     [GoodConfig EXCEPT !.transport = "sse"]}

NoConfig == [command |-> "none", args |-> "none", env |-> "none", transport |-> "none"]

\* typeof command !== 'string' || !command
CommandOk(command) == command = "cmd"

\* JSON.parse(argsString), Array.isArray, every element a string
ArgsOk(args) == args \in {"absent", "arrayOfStrings"}

\* JSON.parse(envString), typeof queryEnv === 'object' && queryEnv !== null
EnvOk(env) == env \in {"absent", "object", "array"}

\* transport.toLowerCase() === 'stdio'
ToLowerCase(t) == IF t = "STDIO" THEN "stdio" ELSE t
TransportOk(transport) == ToLowerCase(transport) = "stdio"

\* -------------------------------------------------------------- state
VARIABLES
    pc,                \* handleSseConnection of each session: where it stands
    clients,           \* this.clients: the ids registered
    clientTransports,  \* this.clientTransports: the ids with a transport
    writable,          \* client.response.writable
    reqClosed,         \* the SSE request has emitted 'close'
    stream,            \* the events written to response, in order
    proc,              \* the transport's child process
    closeCalls,        \* calls of mcpTransport.close()
    endCalls,          \* calls of client.response.end()
    emitted,           \* the messages the transport handed to onmessage
    badLines,          \* the stdout lines the transport could not parse
    childIn,           \* the messages transport.send() wrote to the child
    lastSubmit,        \* the latest POST: the clientId it named and the status
                       \* that answered it; 0: none yet
    cfg,               \* the configuration of the Open
    openedWritable,    \* the sink was writable when the session was registered
    goneAtOpen,        \* the client had gone before handleSseConnection ran
    cleaned,           \* the ids cleanupClient has run for
    spawnPos,          \* events on the stream when start() was called; -1: never
    shuttingDown,      \* gracefulShutdown has run
    \* The relay of mcp-communication.ts (child_process.spawn):
    cpPc,              \* handleGetRequest of each session: where it stands
    cpClients,         \* this.clients
    cpWritable,        \* client.response.writable
    cpReqClosed,       \* the SSE request has emitted 'close'
    cpStream,          \* the events written to response, in order
    cpFrom,            \* for each event of cpStream, the offset in the child's
                       \* stdout of the text it was made from; -1: none
    cpProcess,         \* client.mcpProcess
    cpKilled,          \* client.mcpProcess.killed
    cpKillCalls,       \* calls of mcpProcess.kill()
    cpEndCalls,        \* calls of client.response.end()
    cpStdout,          \* what the child has written to its stdout, in order
    cpSpawnFailed,     \* the child of the session could not be started
    cpChildIn,         \* the requests written to the child's stdin: for each,
                       \* the session whose client posted it
    cpLastPost,        \* the latest POST: the session whose client posted it
                       \* and the status that answered it; 0: none yet
    \* A function followed by itself:
    job,               \* the call: the function, its arguments and, once it has
                       \* run, its result
    \* The ids of the connections, in the order the connections were made:
    issued,            \* what generateClientId returned to each connection
    owner,             \* this.clients, by id: the connection whose response
                       \* the entry holds; 0: no entry
    closedConns,       \* the connections whose request has emitted 'close'
    \* McpCommunicationService, in the browser:
    svc,               \* its fields, its EventSource, and what it has handed
                       \* to sendRequestToBackend
    \* Logger:
    logger,            \* currentLevel, the level of the latest setLogLevel, and
                       \* the calls of log so far
    \* McController, in the browser:
    mc                 \* its fields, the requests and messages under way
                       \* between it and the child, and the latest call of the view

ctlVars == <<pc, clients, clientTransports, writable, reqClosed, stream, proc,
          closeCalls, endCalls, emitted, badLines, childIn, lastSubmit, cfg,
          openedWritable, goneAtOpen, cleaned, spawnPos, shuttingDown>>

cpPostVars == <<cpChildIn, cpLastPost>>

cpVars == <<cpPc, cpClients, cpWritable, cpReqClosed, cpStream, cpFrom, cpProcess,
            cpKilled, cpKillCalls, cpEndCalls, cpStdout, cpSpawnFailed, cpPostVars>>

idVars == <<issued, owner, closedConns>>

auxVars == <<job, idVars, svc, logger, mc>>

vars == <<ctlVars, cpVars, auxVars>>

\* The part of the state sendSseMessage and cleanupClient read and write.
Cur == [clients |-> clients, clientTransports |-> clientTransports,
        writable |-> writable, stream |-> stream, proc |-> proc,
        closeCalls |-> closeCalls, endCalls |-> endCalls, cleaned |-> cleaned]

Install(g) ==
    /\ clients' = g.clients
    /\ clientTransports' = g.clientTransports
    /\ writable' = g.writable
    /\ stream' = g.stream
    /\ proc' = g.proc
    /\ closeCalls' = g.closeCalls
    /\ endCalls' = g.endCalls
    /\ cleaned' = g.cleaned

Bump(n) == IF n < MaxCalls THEN n + 1 ELSE n

\* What the children of all sessions together have handed over so far:
\* the sum of the lengths of f[id].
TotalLen(f) ==
    LET RECURSIVE Sum(_)
        Sum(ids) == IF ids = {} THEN 0
                    ELSE LET i == CHOOSE j \in ids : TRUE
                         IN  Len(f[i]) + Sum(ids \ {i})
    IN  Sum(AllIds)

\* ------------------------------------------------------------- events
Event(type, payload) == [type |-> type, payload |-> payload]
ClientIdAssigned(id) == Event("clientIdAssigned", [clientId |-> id])
Status(s) == Event("connectionStatus", [status |-> s])
McpMessage(m) == Event("mcpMessage", m)

IsStatus(e, s) == e.type = "connectionStatus" /\ e.payload.status = s
IsTerminal(e) == IsStatus(e, "error") \/ IsStatus(e, "disconnected")

\* The replacer of JSON.stringify in sendSseMessage: a function becomes the
\* string '[Function]', every other value is kept.
Replacer(value) == IF value = [function |-> TRUE] THEN [string |-> "[Function]"] ELSE value

\* mcpTransport.close(): the child is signalled, once it runs.
CloseTransport(p) == IF p \in {"spawning", "running"} THEN "killed" ELSE p

cleanupClient(g, id) ==
    LET g1 == IF id \in g.clientTransports
              THEN [g EXCEPT !.clientTransports = @ \ {id},
                             !.closeCalls[id] = Bump(@),
                             !.proc[id] = CloseTransport(@)]
              ELSE g
        g2 == IF id \in g1.clients /\ g1.writable[id]
              THEN [g1 EXCEPT !.writable[id] = FALSE, !.endCalls[id] = Bump(@)]
              ELSE g1
    IN  [g2 EXCEPT !.clients = @ \ {id}, !.cleaned = @ \cup {id}]

\* A sendSseMessage that only skips the write when the sink is closed.
sendSseMessageNoCleanup(g, id, type, payload) ==
    IF id \notin g.clients \/ ~g.writable[id]
    THEN g
    ELSE [g EXCEPT !.stream[id] = Append(@, Event(type, Replacer(payload)))]

sendSseMessage(g, id, type, payload) ==
    IF id \notin g.clients \/ ~g.writable[id]
    THEN cleanupClient(g, id)
    ELSE [g EXCEPT !.stream[id] = Append(@, Event(type, Replacer(payload)))]

\* if (currentClient) sendSseMessage(currentClient, ...)
sendIfClient(g, id, type, payload) ==
    IF id \in g.clients THEN sendSseMessage(g, id, type, payload) ELSE g

CtlInit ==
    /\ pc = [i \in AllIds |-> "idle"]
    /\ clients = {}
    /\ clientTransports = {}
    /\ writable = [i \in AllIds |-> TRUE]
    /\ reqClosed = [i \in AllIds |-> FALSE]
    /\ stream = [i \in AllIds |-> <<>>]
    /\ proc = [i \in AllIds |-> "none"]
    /\ closeCalls = [i \in AllIds |-> 0]
    /\ endCalls = [i \in AllIds |-> 0]
    /\ emitted = [i \in AllIds |-> <<>>]
    /\ badLines = [i \in AllIds |-> <<>>]
    /\ childIn = [i \in AllIds |-> <<>>]
    /\ lastSubmit = [to |-> NoId, status |-> 0]
    /\ cfg = [i \in AllIds |-> NoConfig]
    /\ openedWritable = [i \in AllIds |-> FALSE]
    /\ goneAtOpen = [i \in AllIds |-> FALSE]
    /\ cleaned = {}
    /\ spawnPos = [i \in AllIds |-> -1]
    /\ shuttingDown = FALSE

CpInit ==
    /\ cpPc = [i \in AllIds |-> "idle"]
    /\ cpClients = {}
    /\ cpWritable = [i \in AllIds |-> TRUE]
    /\ cpReqClosed = [i \in AllIds |-> FALSE]
    /\ cpStream = [i \in AllIds |-> <<>>]
    /\ cpFrom = [i \in AllIds |-> <<>>]
    /\ cpProcess = [i \in AllIds |-> "null"]
    /\ cpKilled = [i \in AllIds |-> FALSE]
    /\ cpKillCalls = [i \in AllIds |-> 0]
    /\ cpEndCalls = [i \in AllIds |-> 0]
    /\ cpStdout = [i \in AllIds |-> <<>>]
    /\ cpSpawnFailed = [i \in AllIds |-> FALSE]
    /\ cpChildIn = [i \in AllIds |-> <<>>]
    /\ cpLastPost = [to |-> NoId, status |-> 0]

\* No function is followed.
NoJob == [fn |-> "none", done |-> FALSE]

NoConnection == 0

IdsInit ==
    /\ issued = <<>>
    /\ owner = [i \in AllIds |-> NoConnection]
    /\ closedConns = {}

\* new McpCommunicationService(): connect() has not been called. `es` is
\* the EventSource ("none": there is none), `conn` the number of the
\* connection it holds, `got` the last event of the server's that the
\* connection has delivered, `calls` the calls of sendRequest so far, and
\* `handed` the calls of sendRequestToBackend, in order. `stale` holds the
\* EventSources that connect() has replaced without closing them.
SvcInit ==
    svc = [isConnected |-> FALSE, isInitialized |-> FALSE, pendingRequests |-> <<>>,
           clientId |-> NoId, es |-> "none", conn |-> 0, got |-> "nothing",
           sawInit |-> FALSE, calls |-> 0, handed |-> <<>>, stale |-> {}]

\* enum LogLevel
LogLevel == [Fatal |-> 1, Error |-> 2, Warning |-> 3, Info |-> 4, Debug |-> 5]

\* new Logger(): currentLevel = LogLevel.Debug
LogInit == logger = [currentLevel |-> LogLevel.Debug, setTo |-> LogLevel.Debug, calls |-> <<>>]

\* new McController(): not connected, nothing asked. `asked` counts the
\* requests of the user, `sent` holds what sendRequest was given and the child
\* has not answered yet, `inbox` the messages of the child that are on their
\* way, `said` counts the messages the child sent unasked, and `view` is
\* the latest call of the view made for a message.
McInit ==
    mc = [isConnectedToServer |-> FALSE, isServerInitialized |-> FALSE,
          pendingInitializationRequests |-> <<>>, pendingRequestType |-> "null",
          asked |-> 0, sent |-> <<>>, inbox |-> <<>>, said |-> 0,
          view |-> [call |-> "none", of |-> "none"]]

Init == CtlInit /\ CpInit /\ job = NoJob /\ IdsInit /\ SvcInit /\ LogInit /\ McInit

\* ------------------------------------------------------ GET /mcp-proxy/sse
StatusError == [status |-> "error"]

\* sendSseMessage(newClient, 'connectionStatus', {status: 'error', ...});
\* cleanupClient(clientId);
failOpen(g, id) == cleanupClient(sendSseMessage(g, id, "connectionStatus", StatusError), id)

\* A handleSseConnection that tells the client no id.
sendNoClientId(g, id) == g

\* sendSseMessage(newClient, 'clientIdAssigned', { clientId });
sendClientIdAssigned(g, id) == sendSseMessage(g, id, "clientIdAssigned", [clientId |-> id])

\* handleSseConnection up to its return or to `await start()`: the state it
\* leaves, where it stands, and the stream's length when start() was called.
openSession(g, id, c) ==
    LET g1 == sendClientIdAssigned([g EXCEPT !.clients = @ \cup {id}], id)
    IN  IF ~CommandOk(c.command) \/ ~ArgsOk(c.args) \/ ~EnvOk(c.env)
        THEN [g |-> failOpen(g1, id), pc |-> "returned", spawnPos |-> -1]
        ELSE IF ~TransportOk(c.transport)
        THEN [g |-> failOpen(g1, id), pc |-> "listening", spawnPos |-> -1]
        ELSE [g |-> [g1 EXCEPT !.clientTransports = @ \cup {id},
                               !.proc[id] = "spawning"],
              pc |-> "starting", spawnPos |-> Len(g1.stream[id])]

\* The request reaches handleSseConnection after express.static has looked
\* for a file, so the client may be gone already (gone), and the response
\* may or may not say so (w).
HandleSseConnection(id, c, gone, w) ==
    /\ pc[id] = "idle"
    /\ ~shuttingDown
    /\ gone \/ w
    /\ LET r == openSession([Cur EXCEPT !.writable[id] = w], id, c)
       IN  /\ Install(r.g)
           /\ pc' = [pc EXCEPT ![id] = r.pc]
           /\ spawnPos' = [spawnPos EXCEPT ![id] = r.spawnPos]
    /\ reqClosed' = [reqClosed EXCEPT ![id] = gone]
    /\ cfg' = [cfg EXCEPT ![id] = c]
    /\ openedWritable' = [openedWritable EXCEPT ![id] = w]
    /\ goneAtOpen' = [goneAtOpen EXCEPT ![id] = gone]
    /\ UNCHANGED <<badLines, emitted, childIn, lastSubmit, shuttingDown,
                   cpVars, auxVars>>

\* After `await start()`: the 'connected' status, then req.on('close', ...).
afterStart(g, id) == sendSseMessage(g, id, "connectionStatus", [status |-> "connected"])

\* start() resolves and handleSseConnection resumes.
StartResolved(id) ==
    /\ pc[id] = "starting"
    /\ proc[id] \in {"spawning", "killed"}
    /\ LET g0 == [Cur EXCEPT !.proc[id] = IF @ = "spawning" THEN "running" ELSE @]
       IN  Install(afterStart(g0, id))
    /\ pc' = [pc EXCEPT ![id] = "listening"]
    /\ UNCHANGED <<badLines, reqClosed, emitted, childIn, lastSubmit, cfg, openedWritable, goneAtOpen,
                   spawnPos, shuttingDown,
                   cpVars, auxVars>>

\* An onerror that reports the error and leaves the session as it is.
onerrorWithoutCleanup(g, id) == sendIfClient(g, id, "connectionStatus", StatusError)

\* mcpTransportInstance.onerror
onerror(g, id) == cleanupClient(sendIfClient(g, id, "connectionStatus", StatusError), id)

\* mcpTransportInstance.onclose
onclose(g, id) ==
    cleanupClient(sendIfClient(g, id, "connectionStatus", [status |-> "disconnected"]), id)

\* The catch block of handleSseConnection.
startFailed(g, id) == failOpen(g, id)

\* The child cannot be started: start() rejects; the transport may report
\* the failure to onerror as well, before handleSseConnection resumes.
StartRejected(id, viaOnerror) ==
    /\ pc[id] = "starting"
    /\ proc[id] = "spawning"
    /\ emitted[id] = <<>>       \* a child that did not start has written nothing
    /\ LET g0 == [Cur EXCEPT !.proc[id] = "failed"]
           g1 == IF viaOnerror THEN onerror(g0, id) ELSE g0
       IN  Install(startFailed(g1, id))
    /\ pc' = [pc EXCEPT ![id] = "listening"]
    /\ UNCHANGED <<badLines, reqClosed, emitted, childIn, lastSubmit, cfg, openedWritable, goneAtOpen,
                   spawnPos, shuttingDown,
                   cpVars, auxVars>>

\* An onmessage that relays nothing.
onmessageDropped(g, id, m) == g

\* mcpTransportInstance.onmessage
onmessage(g, id, m) == sendIfClient(g, id, "mcpMessage", m)

\* The k-th message of a child: its messages are told apart by their id.
ChildMessage(k) == [id |-> k]

\* The lines the children have written to stdout so far.
ChildOutput == TotalLen(emitted) + TotalLen(badLines)

\* The transport hands the next message of the child to onmessage.
TransportMessage(id) ==
    /\ proc[id] \in {"spawning", "running", "killed"}
    /\ ChildOutput < MaxMsgs
    /\ LET m == ChildMessage(Len(emitted[id]) + 1)
       IN  /\ emitted' = [emitted EXCEPT ![id] = Append(@, m)]
           /\ Install(onmessage(Cur, id, m))
    /\ UNCHANGED <<badLines, pc, reqClosed, childIn, lastSubmit, cfg, openedWritable, goneAtOpen,
                   spawnPos, shuttingDown,
                   cpVars, auxVars>>

\* A line of the child's stdout that is not JSON.
BadLine == <<"x">>

\* The child writes a line that is not JSON: the transport cannot parse it
\* and reports the failure to onerror.
TransportBadLine(id) ==
    /\ proc[id] \in {"spawning", "running", "killed"}
    /\ ChildOutput < MaxMsgs
    /\ badLines' = [badLines EXCEPT ![id] = Append(@, BadLine)]
    /\ Install(onerror(Cur, id))
    /\ UNCHANGED <<pc, reqClosed, emitted, childIn, lastSubmit, cfg, openedWritable,
                   goneAtOpen, spawnPos, shuttingDown, cpVars, auxVars>>

\* The transport reports an error of the running child's streams.
TransportError(id) ==
    /\ proc[id] \in {"running", "killed"}
    /\ Install(onerror(Cur, id))
    /\ UNCHANGED <<badLines, pc, reqClosed, emitted, childIn, lastSubmit, cfg,
                   openedWritable, goneAtOpen, spawnPos, shuttingDown,
                   cpVars, auxVars>>

\* The child exits; its 'close' event has not reached the transport yet.
ChildExit(id) ==
    /\ proc[id] = "running"
    /\ proc' = [proc EXCEPT ![id] = "dead"]
    /\ UNCHANGED <<pc, clients, clientTransports, writable, reqClosed, stream,
                   closeCalls, endCalls, emitted, badLines, childIn, lastSubmit, cfg,
                   openedWritable, goneAtOpen, cleaned, spawnPos, shuttingDown,
                   cpVars, auxVars>>

\* The child is gone and the transport says so (again, when it had already).
TransportClosed(id) ==
    /\ proc[id] \in {"running", "killed", "failed", "exited", "dead"}
    /\ LET g == onclose(Cur, id)
       IN  Install([g EXCEPT !.proc[id] = "exited"])
    /\ UNCHANGED <<badLines, pc, reqClosed, emitted, childIn, lastSubmit, cfg,
                   openedWritable, goneAtOpen, spawnPos, shuttingDown,
                   cpVars, auxVars>>

\* The client closes the SSE connection: response.writable may drop, and
\* the 'close' listener runs if handleSseConnection has installed it.
reqClose(g, id) == cleanupClient(g, id)

SseClosed(id, w) ==
    /\ pc[id] # "idle"
    /\ ~reqClosed[id]
    /\ reqClosed' = [reqClosed EXCEPT ![id] = TRUE]
    /\ LET g0 == [Cur EXCEPT !.writable[id] = @ /\ w]
       IN  Install(IF pc[id] = "listening" THEN reqClose(g0, id) ELSE g0)
    /\ UNCHANGED <<badLines, pc, emitted, childIn, lastSubmit, cfg, openedWritable, goneAtOpen,
                   spawnPos, shuttingDown,
                   cpVars, auxVars>>

\* ------------------------------------------------ POST /mcp-proxy/message
Envelopes == {[id |-> "list-1"]}

\* A handleClientMessage that looks no session up.
clientMessageUnchecked(g, clientId, message, sendFails) ==
    IF clientId = NoId
    THEN [g |-> g, status |-> 400, sent |-> <<>>]
    ELSE [g |-> g, status |-> 200, sent |-> <<message>>]

\* A handleClientMessage that cleans the session up when send() fails.
clientMessageCleansUp(g, clientId, message, sendFails) ==
    IF clientId = NoId
    THEN [g |-> g, status |-> 400, sent |-> <<>>]
    ELSE IF clientId \notin g.clientTransports \/ clientId \notin g.clients
    THEN [g |-> cleanupClient(g, clientId), status |-> 404, sent |-> <<>>]
    ELSE IF sendFails
    THEN [g |-> cleanupClient(g, clientId), status |-> 500, sent |-> <<>>]
    ELSE [g |-> g, status |-> 200, sent |-> <<message>>]

\* handleClientMessage, with the outcome of transport.send(): the state it
\* leaves, the status it answers and what reached the child.
clientMessage(g, clientId, message, sendFails) ==
    IF clientId = NoId
    THEN [g |-> g, status |-> 400, sent |-> <<>>]
    ELSE IF clientId \notin g.clientTransports \/ clientId \notin g.clients
    THEN [g |-> cleanupClient(g, clientId), status |-> 404, sent |-> <<>>]
    ELSE IF sendFails
    THEN [g |-> g, status |-> 500, sent |-> <<>>]
    ELSE [g |-> g, status |-> 200, sent |-> <<message>>]

HandleClientMessage(clientId, message, sendFails) ==
    /\ TotalLen(childIn) < MaxSubmits
    /\ LET r == clientMessage(Cur, clientId, message, sendFails)
       IN  /\ Install(r.g)
           /\ lastSubmit' = [to |-> clientId, status |-> r.status]
           /\ childIn' = IF clientId \in AllIds
                         THEN [childIn EXCEPT ![clientId] = @ \o r.sent]
                         ELSE childIn
    /\ UNCHANGED <<badLines, pc, reqClosed, emitted, cfg, openedWritable, goneAtOpen, spawnPos,
                   shuttingDown,
                   cpVars, auxVars>>

\* ------------------------------------------------------------- shutdown
RECURSIVE cleanupAll(_, _)
cleanupAll(g, ids) ==
    IF ids = {} THEN g
    ELSE LET id == CHOOSE i \in ids : \A j \in ids : i <= j
         IN  cleanupAll(cleanupClient(g, id), ids \ {id})

\* shutdown(): cleanupClient for every key of this.clients.
shutdown(g) == cleanupAll(g, g.clients)

Shutdown ==
    /\ ~shuttingDown
    /\ shuttingDown' = TRUE
    /\ Install(shutdown(Cur))
    /\ UNCHANGED <<badLines, pc, reqClosed, emitted, childIn, lastSubmit, cfg,
                   openedWritable, goneAtOpen, spawnPos,
                   cpVars, auxVars>>

\* What the environment may do to a session of the relay.
Lifecycle ==
    \/ \E id \in Ids : StartResolved(id)
    \/ \E id \in Ids, viaOnerror \in BOOLEAN : StartRejected(id, viaOnerror)
    \/ \E id \in Ids : TransportError(id)
    \/ \E id \in Ids : TransportClosed(id)
    \/ \E id \in Ids, w \in BOOLEAN : SseClosed(id, w)

\* Sessions and the messages of their children.
Next ==
    \/ \E id \in Ids, c \in MainConfigs, gone \in BOOLEAN, w \in BOOLEAN :
           HandleSseConnection(id, c, gone, w)
    \/ Lifecycle
    \/ \E id \in Ids : TransportMessage(id)
    \/ \E id \in Ids : TransportBadLine(id)

Spec == Init /\ [][Next]_vars

\* Sessions, the POSTs addressed to them and the shutdown of the server.
NextReg ==
    \/ \E id \in Ids, c \in MainConfigs, gone \in BOOLEAN, w \in BOOLEAN :
           HandleSseConnection(id, c, gone, w)
    \/ Lifecycle
    \/ \E clientId \in Ids \cup {NoId}, message \in Envelopes, sendFails \in BOOLEAN :
           HandleClientMessage(clientId, message, sendFails)
    \/ Shutdown

SpecReg == Init /\ [][NextReg]_vars

\* Sessions opened with every configuration.
NextOpen ==
    \/ \E id \in Ids, c \in Configs, gone \in BOOLEAN, w \in BOOLEAN :
           HandleSseConnection(id, c, gone, w)
    \/ Lifecycle

SpecOpen == Init /\ [][NextOpen]_vars

\* Several sessions at once, their children and the POSTs of their clients,
\* addressed to any id. The sessions are numbered as they are opened.
NextPeers ==
    \/ \E id \in AllIds :
           /\ \A j \in 1..(id - 1) : pc[j] # "idle"
           /\ HandleSseConnection(id, GoodConfig, FALSE, TRUE)
    \/ \E id \in AllIds : StartResolved(id)
    \/ \E id \in AllIds : ChildExit(id)
    \/ \E id \in AllIds : TransportClosed(id)
    \/ \E id \in AllIds : SseClosed(id, FALSE)
    \/ \E clientId \in AllIds \cup {NoId}, message \in Envelopes, sendFails \in BOOLEAN :
           HandleClientMessage(clientId, message, sendFails)

SpecPeers == Init /\ [][NextPeers]_vars

\* ==================== the relay of mcp-communication.ts (child_process)
Chars == {"1", "x", "\n"}
IsSpace(ch) == ch = "\n"

\* The chunks a 'data' event of the child's stdout may carry.
Chunks == UNION {[1..n -> Chars] : n \in 1..MaxChunk}

CpCur == [clients |-> cpClients, writable |-> cpWritable, stream |-> cpStream,
          from |-> cpFrom, process |-> cpProcess, killed |-> cpKilled,
          killCalls |-> cpKillCalls, endCalls |-> cpEndCalls]

CpInstall(g) ==
    /\ cpClients' = g.clients
    /\ cpWritable' = g.writable
    /\ cpStream' = g.stream
    /\ cpFrom' = g.from
    /\ cpProcess' = g.process
    /\ cpKilled' = g.killed
    /\ cpKillCalls' = g.killCalls
    /\ cpEndCalls' = g.endCalls

\* cleanupClient(client) of mcp-communication.ts. kill() signals a child that
\* runs, and only then sets `killed`.
cpCleanupClient(g, id) ==
    LET g1 == IF g.process[id] # "null" /\ ~g.killed[id]
              THEN [g EXCEPT !.killCalls[id] = Bump(@),
                             !.killed[id] = (g.process[id] = "running"),
                             !.process[id] = IF @ = "running" THEN "killed" ELSE @]
              ELSE g
        g2 == [g1 EXCEPT !.clients = @ \ {id}]
    IN  IF g2.writable[id]
        THEN [g2 EXCEPT !.writable[id] = FALSE, !.endCalls[id] = Bump(@)]
        ELSE g2

\* sendSseMessage(client, type, payload) of mcp-communication.ts; `at` is
\* where in the child's stdout the payload comes from.
cpSendSseMessage(g, id, type, payload, at) ==
    IF g.writable[id]
    THEN [g EXCEPT !.stream[id] = Append(@, Event(type, payload)),
                   !.from[id] = Append(@, at)]
    ELSE cpCleanupClient(g, id)

\* if (this.clients.has(client.id)) sendSseMessage(...); cleanupClient(client);
cpFatal(g, id, payload) ==
    cpCleanupClient(IF id \in g.clients
                    THEN cpSendSseMessage(g, id, "connectionStatus", payload, -1)
                    ELSE g, id)

\* JSON.parse(argsString), Array.isArray
CpArgsOk(args) == args \in {"absent", "arrayOfStrings", "arrayOfNumbers"}

\* spawnMcpProcess: spawn() throws, or returns a child that runs, or returns
\* one that will emit 'error'.
SpawnOutcomes == {"runs", "fails", "throws"}

spawnMcpProcess(g, id, transport, outcome) ==
    IF ~TransportOk(transport)
    THEN cpCleanupClient(cpSendSseMessage(g, id, "connectionStatus", StatusError, -1), id)
    ELSE IF outcome = "throws"
    THEN cpFatal(g, id, StatusError)
    ELSE cpSendSseMessage(
             [g EXCEPT !.process[id] = IF outcome = "runs" THEN "running" ELSE "failing"],
             id, "connectionStatus", [status |-> "connected"], -1)

\* handleGetRequest: the state it leaves and where it stands.
cpOpenSession(g, id, c, outcome) ==
    LET g1 == [g EXCEPT !.clients = @ \cup {id}]
    IN  IF ~CommandOk(c.command) \/ ~CpArgsOk(c.args)
        THEN [g |-> cpCleanupClient(
                        cpSendSseMessage(g1, id, "connectionStatus", StatusError, -1), id),
              pc |-> "returned"]
        ELSE [g |-> spawnMcpProcess(g1, id, c.transport, outcome), pc |-> "listening"]

HandleGetRequest(id, c, outcome) ==
    /\ cpPc[id] = "idle"
    /\ LET r == cpOpenSession(CpCur, id, c, outcome)
       IN  /\ CpInstall(r.g)
           /\ cpPc' = [cpPc EXCEPT ![id] = r.pc]
           /\ cpSpawnFailed' = [cpSpawnFailed EXCEPT ![id] =
                  r.pc = "listening" /\ TransportOk(c.transport) /\ outcome # "runs"]
    /\ UNCHANGED <<cpReqClosed, cpStdout, cpPostVars,
                   ctlVars, auxVars>>

\* ---- mcpProcess.stdout.on('data'): data.toString().split(/\r?\n/)
\* The lines of a chunk, each with its offset in the chunk.
RECURSIVE SplitFrom(_, _, _)
SplitFrom(chunk, start, i) ==
    IF i > Len(chunk)
    THEN <<[text |-> SubSeq(chunk, start, Len(chunk)), at |-> start - 1]>>
    ELSE IF chunk[i] = "\n"
    THEN <<[text |-> SubSeq(chunk, start, i - 1), at |-> start - 1]>>
             \o SplitFrom(chunk, i + 1, i + 1)
    ELSE SplitFrom(chunk, start, i + 1)

Split(chunk) == SplitFrom(chunk, 1, 1)

\* line.trim()
RECURSIVE TrimStart(_)
TrimStart(line) ==
    IF line # <<>> /\ IsSpace(line[1]) THEN TrimStart(Tail(line)) ELSE line

RECURSIVE TrimEnd(_)
TrimEnd(line) ==
    IF line # <<>> /\ IsSpace(line[Len(line)])
    THEN TrimEnd(SubSeq(line, 1, Len(line) - 1)) ELSE line

Trim(line) == TrimEnd(TrimStart(line))

\* JSON.parse(line) succeeds: between white space, the digits of one number.
IsJson(line) == Trim(line) # <<>> /\ \A i \in DOMAIN Trim(line) : Trim(line)[i] = "1"

\* JSON.parse(line): the number.
JsonParse(line) == [number |-> Trim(line)]

StdoutLog(line) == [source |-> "stdout", content |-> line]

\* The body of lines.forEach for one line; `base` is the chunk's offset.
relayLine(g, id, line, base) ==
    IF Trim(line.text) = <<>>
    THEN g
    ELSE IF IsJson(line.text)
    THEN cpSendSseMessage(g, id, "mcpMessage", JsonParse(line.text), base + line.at)
    ELSE cpSendSseMessage(g, id, "logMessage", StdoutLog(line.text), base + line.at)

\* A relay that takes the lines of a chunk last to first.
RECURSIVE relayLinesBackwards(_, _, _, _)
relayLinesBackwards(g, id, lines, base) ==
    IF lines = <<>> THEN g
    ELSE relayLine(relayLinesBackwards(g, id, Tail(lines), base), id, Head(lines), base)

RECURSIVE relayLines(_, _, _, _)
relayLines(g, id, lines, base) ==
    IF lines = <<>> THEN g
    ELSE relayLines(relayLine(g, id, Head(lines), base), id, Tail(lines), base)

onStdoutData(g, id, chunk, base) == relayLines(g, id, Split(chunk), base)

TotalStdout == TotalLen(cpStdout)

\* The child writes to its stdout and the chunk reaches the 'data' listener.
StdoutData(id, chunk) ==
    /\ cpProcess[id] \in {"running", "killed"}
    /\ TotalStdout + Len(chunk) <= MaxBytes
    /\ cpStdout' = [cpStdout EXCEPT ![id] = @ \o chunk]
    /\ CpInstall(onStdoutData(CpCur, id, chunk, Len(cpStdout[id])))
    /\ UNCHANGED <<cpPc, cpReqClosed, cpSpawnFailed, cpPostVars,
                   ctlVars, auxVars>>

\* mcpProcess.on('error'): the child could not be started.
ProcessError(id) ==
    /\ cpProcess[id] = "failing"
    /\ LET g == cpFatal(CpCur, id, StatusError)
       IN  CpInstall([g EXCEPT !.process[id] = "failed"])
    /\ UNCHANGED <<cpPc, cpReqClosed, cpStdout, cpSpawnFailed, cpPostVars,
                   ctlVars, auxVars>>

\* mcpProcess.on('close')
ProcessClose(id) ==
    /\ cpProcess[id] \in {"running", "killed", "failed"}
    /\ LET g == cpFatal(CpCur, id, [status |-> "disconnected"])
       IN  CpInstall([g EXCEPT !.process[id] = "exited"])
    /\ UNCHANGED <<cpPc, cpReqClosed, cpStdout, cpSpawnFailed, cpPostVars,
                   ctlVars, auxVars>>

\* req.on('close'): cleanupClient(this.clients.get(clientId))
cpReqClose(g, id) == IF id \in g.clients THEN cpCleanupClient(g, id) ELSE g

CpSseClosed(id, w) ==
    /\ cpPc[id] # "idle"
    /\ ~cpReqClosed[id]
    /\ cpReqClosed' = [cpReqClosed EXCEPT ![id] = TRUE]
    /\ LET g0 == [CpCur EXCEPT !.writable[id] = @ /\ w]
       IN  CpInstall(IF cpPc[id] = "listening" THEN cpReqClose(g0, id) ELSE g0)
    /\ UNCHANGED <<cpPc, cpStdout, cpSpawnFailed, cpPostVars,
                   ctlVars, auxVars>>

NextCp ==
    \/ \E id \in Ids, c \in MainConfigs, outcome \in SpawnOutcomes :
           HandleGetRequest(id, c, outcome)
    \/ \E id \in Ids, chunk \in Chunks : StdoutData(id, chunk)
    \/ \E id \in Ids : ProcessError(id)
    \/ \E id \in Ids : ProcessClose(id)
    \/ \E id \in Ids, w \in BOOLEAN : CpSseClosed(id, w)

SpecCp == Init /\ [][NextCp]_vars

\* ---- POST /mcp-proxy/message
\* mcpProcess.stdin.writable
StdinWritable(p) == p \in {"running", "failing"}

\* handlePostRequest of mcp-communication.ts with the callback of
\* stdin.write(): the state it leaves, the status it answers and the child
\* written to (NoId: none). The request names no session: it goes to the
\* client of the registry when there is exactly one.
postRequest(g, valid, writeFails) ==
    IF ~valid
    THEN [g |-> g, status |-> 400, wrote |-> NoId]
    ELSE IF Cardinality(g.clients) # 1
    THEN [g |-> g, status |-> IF g.clients = {} THEN 409 ELSE 501, wrote |-> NoId]
    ELSE LET targetClient == CHOOSE id \in g.clients : TRUE
         IN  IF g.process[targetClient] = "null" \/ g.killed[targetClient]
                  \/ ~StdinWritable(g.process[targetClient])
             THEN [g |-> g, status |-> 409, wrote |-> NoId]
             ELSE IF writeFails
             THEN [g |-> cpSendSseMessage(g, targetClient, "commandError",
                                           [type |-> "tools/list"], -1),
                   status |-> 500, wrote |-> NoId]
             ELSE [g |-> g, status |-> 200, wrote |-> targetClient]

IsCommandError(e) == e.type = "commandError"

\* The requests that reached stdin.write() so far, written or not.
CpWrites ==
    TotalLen(cpChildIn) + TotalLen([i \in AllIds |-> SelectSeq(cpStream[i], IsCommandError)])

\* The client of session clientId posts a request.
HandlePostRequest(clientId, valid, writeFails) ==
    /\ CpWrites < MaxSubmits
    /\ LET r == postRequest(CpCur, valid, writeFails)
       IN  /\ CpInstall(r.g)
           /\ cpLastPost' = [to |-> clientId, status |-> r.status]
           /\ cpChildIn' = IF r.wrote = NoId THEN cpChildIn
                           ELSE [cpChildIn EXCEPT ![r.wrote] = Append(@, clientId)]
    /\ UNCHANGED <<cpPc, cpReqClosed, cpStdout, cpSpawnFailed, ctlVars, auxVars>>

\* Several sessions at once and the POSTs of their clients. The sessions are
\* numbered as they are opened.
NextCpPeers ==
    \/ \E id \in AllIds :
           /\ \A j \in 1..(id - 1) : cpPc[j] # "idle"
           /\ HandleGetRequest(id, GoodConfig, "runs")
    \/ \E id \in AllIds : ProcessClose(id)
    \/ \E id \in AllIds : CpSseClosed(id, FALSE)
    \/ \E clientId \in AllIds, valid \in BOOLEAN, writeFails \in BOOLEAN :
           HandlePostRequest(clientId, valid, writeFails)

SpecCpPeers == Init /\ [][NextCpPeers]_vars

\* ============================================ the id of a submitted request
\* The values an id takes: a string, a number, or none (undefined).
JsonId(kind, text) == [kind |-> kind, text |-> text]
Undefined == JsonId("undefined", "")
ExplicitIds == {JsonId("string", "list-1"), JsonId("string", ""),
                JsonId("number", "7"), JsonId("number", "0")}
JsonIds == ExplicitIds \cup {Undefined}

\* What Date.now() returns.
Clock == {1, 2}

\* `req-${Date.now()}`
GeneratedId(now) == JsonId("string", IF now = 1 THEN "req-1" ELSE "req-2")

\* a || b: b when a is undefined, 0 or ''.
Falsy(v) == v.kind = "undefined" \/ v = JsonId("number", "0") \/ v = JsonId("string", "")
OrElse(a, b) == IF Falsy(a) THEN b ELSE a

\* The objects of a POST body: a JSON-RPC request {jsonrpc, method, params,
\* id}, the legacy {type, payload, id} (its type under `method`), or
\* anything else.
Body(shape, id) == [shape |-> shape, id |-> id, method |-> "tools/list"]
Bodies == {Body(shape, id) : shape \in {"jsonrpc", "legacy"}, id \in JsonIds}
              \cup {Body("other", Undefined)}

\* handlePostRequest of part_006, from the parsed body to the request it
\* sends to the transport: what is written to the child.
handlePostRequest(requestData, now) ==
    IF requestData.shape \in {"jsonrpc", "legacy"}
    THEN <<Body("jsonrpc", OrElse(requestData.id, GeneratedId(now)))>>
    ELSE <<>>

\* handleClientMessage of the controller: transport.send(message) with the
\* body as it came.
handleClientBody(message, now) == <<message>>

\* sendRequest(type, payload, id) of the client: the payload is a JSON-RPC
\* message of its own, or the params of one.
Payload(isJsonRpc, id) == [isJsonRpc |-> isJsonRpc, id |-> id]
Calls == {[id |-> id, payload |-> pl] :
              id \in JsonIds,
              pl \in {Payload(FALSE, Undefined)} \cup {Payload(TRUE, i) : i \in JsonIds}}

\* sendRequestToBackend of the client: the body it posts.
sendRequestToBackend(call, now) ==
    IF call.payload.isJsonRpc
    THEN <<Body("jsonrpc", call.payload.id)>>
    ELSE <<Body("jsonrpc", OrElse(call.id, GeneratedId(now)))>>

Job(fn, args) == [fn |-> fn, done |-> FALSE, args |-> args, result |-> <<>>]
SubmitJobs ==
    {Job("sendRequestToBackend", call) : call \in Calls}
    \cup {Job("handlePostRequest", body) : body \in Bodies}
    \cup {Job("handleClientMessage", body) : body \in Bodies}

RunSubmit(now) ==
    /\ job.fn \in {"sendRequestToBackend", "handlePostRequest", "handleClientMessage"}
    /\ ~job.done
    /\ job' = [job EXCEPT
                  !.done = TRUE,
                  !.result = CASE job.fn = "sendRequestToBackend" ->
                                      sendRequestToBackend(job.args, now)
                               [] job.fn = "handlePostRequest" ->
                                      handlePostRequest(job.args, now)
                               [] OTHER -> handleClientBody(job.args, now)]
    /\ UNCHANGED <<ctlVars, cpVars, idVars, svc, logger, mc>>

NextSubmitId == \E now \in Clock : RunSubmit(now)

\* One call, of any of the three functions, with any arguments.
InitSubmitId == CtlInit /\ CpInit /\ job \in SubmitJobs /\ IdsInit /\ SvcInit /\ LogInit /\ McInit

SpecSubmitId == InitSubmitId /\ [][NextSubmitId]_vars

\* ============================================ the environment of the child
MaxKeys == 2
Keys == 1..MaxKeys

\* An environment gives each key a value, or none ("absent"). The values
\* are told apart by where they come from; JSON.parse may also give the
\* caller's key a null. Neither process.env nor JSON.parse gives a key the
\* value undefined.
Envs(values) == [Keys -> values \cup {"absent"}]
EnvInputs ==
    {[processEnv |-> p, sdkDefault |-> d, queryEnv |-> q] :
        p \in Envs({"inherited"}), d \in Envs({"default"}), q \in Envs({"caller", "null"})}

\* for (const key in env) if (env[key] !== undefined) filtered[key] = env[key]
Filtered(env) == [k \in Keys |-> IF env[k] = "undefined" THEN "absent" ELSE env[k]]

\* A spread in which the keys of the first object win.
SpreadKeepsFirst(a, b) == [k \in Keys |-> IF a[k] # "absent" THEN a[k] ELSE b[k]]

\* { ...a, ...b }
Spread(a, b) == [k \in Keys |-> IF b[k] # "absent" THEN b[k] ELSE a[k]]

\* handleSseConnection of the controller: the env of StdioClientTransport.
finalEnv(in) ==
    Spread(Spread(Filtered(in.processEnv), in.sdkDefault), Filtered(in.queryEnv))

\* handleGetRequest of part_006: { ...process.env, ...defaultEnvironment, ...queryEnv }
finalEnvUnfiltered(in) == Spread(Spread(in.processEnv, in.sdkDefault), in.queryEnv)

EnvJobs ==
    {Job("finalEnv", in) : in \in EnvInputs}
    \cup {Job("finalEnvUnfiltered", in) : in \in EnvInputs}

RunEnv ==
    /\ job.fn \in {"finalEnv", "finalEnvUnfiltered"}
    /\ ~job.done
    /\ job' = [job EXCEPT
                  !.done = TRUE,
                  !.result = IF job.fn = "finalEnv" THEN finalEnv(job.args)
                             ELSE finalEnvUnfiltered(job.args)]
    /\ UNCHANGED <<ctlVars, cpVars, idVars, svc, logger, mc>>

NextEnv == RunEnv

\* One merge, by either relay, of any three environments.
InitEnv == CtlInit /\ CpInit /\ job \in EnvJobs /\ IdsInit /\ SvcInit /\ LogInit /\ McInit

SpecEnv == InitEnv /\ [][NextEnv]_vars

\* ==================================================== the ids of sessions
\* Here a connection is told from the id it was given: the connections are
\* numbered 1, 2, ... as they are made.
MaxOpens == 3

\* generateClientId(): Math.random().toString(36).substring(2, 15), whatever
\* the generator gives; nothing is compared with the ids in use.
generateClientId == AllIds

\* handleSseConnection: the connection is given an id and registered by it.
Connect(clientId) ==
    /\ Len(issued) < MaxOpens
    /\ issued' = Append(issued, clientId)
    /\ owner' = [owner EXCEPT ![clientId] = Len(issued) + 1]
    /\ UNCHANGED <<closedConns, job, svc, logger, mc, ctlVars, cpVars>>

\* req.on('close') of a connection: cleanupClient(clientId) with the id the
\* connection was given.
Disconnect(conn) ==
    /\ conn \in DOMAIN issued \ closedConns
    /\ closedConns' = closedConns \cup {conn}
    /\ owner' = [owner EXCEPT ![issued[conn]] = NoConnection]
    /\ UNCHANGED <<issued, job, svc, logger, mc, ctlVars, cpVars>>

NextIds ==
    \/ \E clientId \in generateClientId : Connect(clientId)
    \/ \E conn \in 1..MaxOpens : Disconnect(conn)

SpecIds == Init /\ [][NextIds]_vars

\* ================================== McpCommunicationService (the client)
MaxRequests == 3
MaxConnects == 2

\* sendRequestToBackend: the request is posted with the clientId, or given
\* up (onCommandError) when there is no clientId. What is recorded of the
\* call: the request, whether it came from the queue, the clientId, and
\* what the connection had delivered by then.
postToBackend(s, request, queued) ==
    [s EXCEPT !.handed = Append(@, [request |-> request, queued |-> queued,
                                    posted |-> s.clientId # NoId, clientId |-> s.clientId,
                                    conn |-> s.conn, got |-> s.got,
                                    sawInit |-> s.sawInit])]

\* A processPendingRequests that takes the newest request first.
RECURSIVE processPendingRequestsNewestFirst(_)
processPendingRequestsNewestFirst(s) ==
    IF s.pendingRequests = <<>> THEN s
    ELSE LET n == Len(s.pendingRequests)
         IN  processPendingRequestsNewestFirst(
                 postToBackend([s EXCEPT !.pendingRequests = SubSeq(@, 1, n - 1)],
                               s.pendingRequests[n], TRUE))

\* while (pendingRequests.length > 0) sendRequestToBackend(pendingRequests.shift())
RECURSIVE processPendingRequests(_)
processPendingRequests(s) ==
    IF s.pendingRequests = <<>> THEN s
    ELSE processPendingRequests(
             postToBackend([s EXCEPT !.pendingRequests = Tail(@)],
                           Head(s.pendingRequests), TRUE))

\* connect(): the fields are reset and an EventSource is made. It is called
\* when the service holds no EventSource.
SvcConnect ==
    /\ svc.es = "none"
    /\ svc.conn < MaxConnects
    /\ svc' = [svc EXCEPT !.isConnected = FALSE, !.isInitialized = FALSE,
                          !.pendingRequests = <<>>, !.clientId = NoId,
                          !.es = "connecting", !.conn = @ + 1, !.got = "nothing",
                          !.sawInit = FALSE]
    /\ UNCHANGED <<ctlVars, cpVars, job, idVars, logger, mc>>

\* eventSource.onopen
SvcOpen ==
    /\ svc.es = "connecting"
    /\ svc' = processPendingRequests(
                  [svc EXCEPT !.isConnected = TRUE, !.isInitialized = TRUE, !.es = "open"])
    /\ UNCHANGED <<ctlVars, cpVars, job, idVars, logger, mc>>

\* The events the relay writes to a stream, in the order it may write them:
\* clientIdAssigned first, then 'connected' once and the child's messages,
\* then one terminal status, after which the stream ends.
ServerEvents == {"clientIdAssigned", "connected", "mcpMessage", "initialized",
                 "disconnected", "error"}

MayFollow(got, event) ==
    CASE event = "clientIdAssigned" -> got = "nothing"
      [] event = "connected" -> got = "assigned"
      [] event \in {"mcpMessage", "initialized"} -> got \in {"assigned", "connected"}
      [] OTHER -> got \in {"assigned", "connected"}

\* eventSource.onmessage; "initialized" is an mcpMessage that the service
\* takes for the server's initialization message.
onSseMessage(s, event) ==
    CASE event = "clientIdAssigned" -> [s EXCEPT !.clientId = s.conn, !.got = "assigned"]
      [] event = "connected" -> [s EXCEPT !.isConnected = TRUE, !.got = "connected"]
      [] event = "initialized" ->
             processPendingRequests([s EXCEPT !.isInitialized = TRUE, !.sawInit = TRUE])
      [] event = "disconnected" ->
             [s EXCEPT !.isConnected = FALSE, !.isInitialized = FALSE, !.got = "disconnected"]
      [] event = "error" -> [s EXCEPT !.got = "error"]
      [] OTHER -> s

SvcMessage(event) ==
    /\ svc.es = "open"
    /\ MayFollow(svc.got, event)
    /\ svc' = onSseMessage(svc, event)
    /\ UNCHANGED <<ctlVars, cpVars, job, idVars, logger, mc>>

\* eventSource.onerror: the connection failed, broke or was ended by the
\* relay; the EventSource connects again by itself, while the bound allows.
SvcError ==
    /\ svc.es \in {"connecting", "open"}
    /\ svc' = [svc EXCEPT !.isConnected = FALSE, !.isInitialized = FALSE,
                          !.es = IF svc.conn < MaxConnects THEN "connecting" ELSE "down",
                          !.conn = IF svc.conn < MaxConnects THEN @ + 1 ELSE @,
                          !.got = "nothing", !.sawInit = FALSE]
    /\ UNCHANGED <<ctlVars, cpVars, job, idVars, logger, mc>>

\* disconnect()
SvcDisconnect ==
    /\ svc.es # "none"
    /\ svc' = [svc EXCEPT !.es = "none", !.isConnected = FALSE, !.isInitialized = FALSE,
                          !.pendingRequests = <<>>]
    /\ UNCHANGED <<ctlVars, cpVars, job, idVars, logger, mc>>

\* sendRequest(type, payload, id): the request is the calls-th.
SvcSendRequest ==
    /\ svc.calls < MaxRequests
    /\ LET request == svc.calls + 1
           s == [svc EXCEPT !.calls = request]
       IN  svc' = IF ~s.isConnected \/ ~s.isInitialized
                  THEN [s EXCEPT !.pendingRequests = Append(@, request)]
                  ELSE postToBackend(s, request, FALSE)
    /\ UNCHANGED <<ctlVars, cpVars, job, idVars, logger, mc>>

NextSvc ==
    \/ SvcConnect
    \/ SvcOpen
    \/ \E event \in ServerEvents : SvcMessage(event)
    \/ SvcError
    \/ SvcDisconnect
    \/ SvcSendRequest

SpecSvc == Init /\ [][NextSvc]_vars

\* connect() called while the service holds an EventSource: the fields are
\* reset and this.eventSource is overwritten; the old EventSource is not
\* closed and keeps its handlers.
SvcReconnect ==
    /\ svc.es \in {"connecting", "open"}
    /\ svc.conn < MaxConnects
    /\ svc' = [svc EXCEPT !.isConnected = FALSE, !.isInitialized = FALSE,
                          !.pendingRequests = <<>>, !.clientId = NoId,
                          !.es = "connecting", !.conn = @ + 1, !.got = "nothing",
                          !.sawInit = FALSE,
                          !.stale = @ \cup {[conn |-> svc.conn, es |-> svc.es]}]
    /\ UNCHANGED <<ctlVars, cpVars, job, idVars, logger, mc>>

\* A replaced EventSource goes from one state to another.
Restate(s, r, es) == [s EXCEPT !.stale = (@ \ {r}) \cup {[r EXCEPT !.es = es]}]

\* onopen of a replaced EventSource
StaleOpen(r) ==
    /\ r \in svc.stale
    /\ r.es = "connecting"
    /\ svc' = processPendingRequests(
                  [Restate(svc, r, "open") EXCEPT !.isConnected = TRUE,
                                                  !.isInitialized = TRUE])
    /\ UNCHANGED <<ctlVars, cpVars, job, idVars, logger, mc>>

\* onmessage of a replaced EventSource: the clientIdAssigned of its session
StaleAssigned(r) ==
    /\ r \in svc.stale
    /\ r.es = "open"
    /\ svc.clientId # r.conn
    /\ svc' = [svc EXCEPT !.clientId = r.conn]
    /\ UNCHANGED <<ctlVars, cpVars, job, idVars, logger, mc>>

\* onerror of a replaced EventSource, which then connects again by itself
StaleError(r) ==
    /\ r \in svc.stale
    /\ r.es = "open"
    /\ svc' = [Restate(svc, r, "connecting") EXCEPT !.isConnected = FALSE,
                                                    !.isInitialized = FALSE]
    /\ UNCHANGED <<ctlVars, cpVars, job, idVars, logger, mc>>

StaleSources == [conn : 1..MaxConnects, es : {"connecting", "open"}]

\* The service under any sequence of connect() and disconnect() calls.
NextSources ==
    \/ SvcConnect
    \/ SvcReconnect
    \/ SvcOpen
    \/ \E event \in ServerEvents : SvcMessage(event)
    \/ SvcError
    \/ SvcDisconnect
    \/ \E r \in StaleSources : StaleOpen(r)
    \/ \E r \in StaleSources : StaleAssigned(r)
    \/ \E r \in StaleSources : StaleError(r)

SpecSources == Init /\ [][NextSources]_vars

\* ================================================================ Logger
MaxLogs == 3

\* A log that filters nothing.
logUnfiltered(lg, level) ==
    [lg EXCEPT !.calls = Append(@, [level |-> level, setTo |-> lg.setTo, output |-> TRUE])]

\* log(level, message, tags): there is output when level <= currentLevel.
\* What is recorded of the call: its level, the level of the latest
\* setLogLevel, and whether there was output.
log(lg, level) ==
    [lg EXCEPT !.calls = Append(@, [level |-> level, setTo |-> lg.setTo,
                                    output |-> level <= lg.currentLevel])]

\* setLogLevel(level), with the LogInfo it makes itself.
setLogLevel(lg, level) ==
    LET set == [lg EXCEPT !.currentLevel = level, !.setTo = level]
    IN  IF LogLevel.Info <= level \/ LogLevel.Info <= lg.currentLevel
        THEN log(set, LogLevel.Info)
        ELSE set

\* LogFatal, LogError, LogWarning, LogInfo, LogDebug
LogCall(level) ==
    /\ Len(logger.calls) < MaxLogs
    /\ logger' = log(logger, level)
    /\ UNCHANGED <<ctlVars, cpVars, job, idVars, svc, mc>>

SetLogLevel(level) ==
    /\ Len(logger.calls) < MaxLogs
    /\ logger' = setLogLevel(logger, level)
    /\ UNCHANGED <<ctlVars, cpVars, job, idVars, svc, mc>>

NextLog ==
    \/ \E level \in LogLevel.Fatal..LogLevel.Debug : LogCall(level)
    \/ \E level \in LogLevel.Fatal..LogLevel.Debug : SetLogLevel(level)

SpecLog == Init /\ [][NextLog]_vars

\* ================================== McController (the browser's controller)
MaxAsks == 2
MaxSays == 2

\* 'listTools' | 'executeTool'
RequestTypes == {"listTools", "executeTool"}

\* The closure that onListTools and onExecuteTool hand to
\* sendRequestWhenReady: it sets pendingRequestType and calls
\* communicationService.sendRequest.
request(m, r) == [m EXCEPT !.pendingRequestType = r.type, !.sent = Append(@, r)]

sendRequestWhenReady(m, r) ==
    IF m.isServerInitialized
    THEN request(m, r)
    ELSE [m EXCEPT !.pendingInitializationRequests = Append(@, r)]

\* while (pendingInitializationRequests.length > 0) shift()()
RECURSIVE runPending(_)
runPending(m) ==
    IF m.pendingInitializationRequests = <<>> THEN m
    ELSE runPending(request([m EXCEPT !.pendingInitializationRequests = Tail(@)],
                            Head(m.pendingInitializationRequests)))

\* The call of the view that the switch on pendingRequestType makes for a
\* message: only the result of a tools/list holds a list of tools.
ViewCall(pending, msg) ==
    CASE pending = "listTools" ->
             IF msg.of = "listTools" THEN "renderToolList" ELSE "showToolListError"
      [] pending = "executeTool" -> "displayToolResult"
      [] OTHER -> "none"

onMcpMessage(m, msg) ==
    IF msg.kind = "init"
    THEN runPending([m EXCEPT !.isServerInitialized = TRUE])
    ELSE [m EXCEPT !.view = [call |-> ViewCall(m.pendingRequestType, msg), of |-> msg.of],
                   !.pendingRequestType = "null"]

\* onConnected(), called by the service when a new stream has opened: a new
\* session with a new child.
OnConnected ==
    /\ ~mc.isConnectedToServer
    /\ mc' = [mc EXCEPT !.isConnectedToServer = TRUE, !.isServerInitialized = FALSE,
                        !.pendingInitializationRequests = <<>>,
                        !.sent = <<>>, !.inbox = <<>>]
    /\ UNCHANGED <<ctlVars, cpVars, job, idVars, svc, logger>>

\* onDisconnected(): the stream has ended and the child with it.
OnDisconnected ==
    /\ mc.isConnectedToServer
    /\ mc' = [mc EXCEPT !.isConnectedToServer = FALSE, !.isServerInitialized = FALSE,
                        !.pendingInitializationRequests = <<>>,
                        !.sent = <<>>, !.inbox = <<>>]
    /\ UNCHANGED <<ctlVars, cpVars, job, idVars, svc, logger>>

\* onListTools() and onExecuteTool(params) while connected, a tool being
\* selected; the request is the asked-th.
OnRequest(type) ==
    /\ mc.isConnectedToServer
    /\ mc.asked < MaxAsks
    /\ mc' = sendRequestWhenReady([mc EXCEPT !.asked = @ + 1],
                                  [id |-> mc.asked + 1, type |-> type])
    /\ UNCHANGED <<ctlVars, cpVars, job, idVars, svc, logger>>

\* The child answers the oldest request it has received.
ChildAnswers ==
    /\ mc.sent # <<>>
    /\ mc' = [mc EXCEPT !.sent = Tail(@),
                        !.inbox = Append(@, [kind |-> "response",
                                             of |-> Head(mc.sent).type])]
    /\ UNCHANGED <<ctlVars, cpVars, job, idVars, svc, logger>>

\* The child sends a message nobody asked for: one that has the shape of an
\* initialization message, or a notification.
ChildSays(kind) ==
    /\ mc.isConnectedToServer
    /\ mc.said < MaxSays
    /\ mc' = [mc EXCEPT !.said = @ + 1,
                        !.inbox = Append(@, [kind |-> kind, of |-> "none"])]
    /\ UNCHANGED <<ctlVars, cpVars, job, idVars, svc, logger>>

\* The service hands the next mcpMessage of the stream to onMcpMessage.
OnMcpMessage ==
    /\ mc.inbox # <<>>
    /\ mc' = onMcpMessage([mc EXCEPT !.inbox = Tail(@)], Head(mc.inbox))
    /\ UNCHANGED <<ctlVars, cpVars, job, idVars, svc, logger>>

NextUi ==
    \/ OnConnected
    \/ OnDisconnected
    \/ \E type \in RequestTypes : OnRequest(type)
    \/ ChildAnswers
    \/ \E kind \in {"init", "notification"} : ChildSays(kind)
    \/ OnMcpMessage

SpecUi == Init /\ [][NextUi]_vars

\* The events of the stream are delivered and the child answers what it has
\* received; it need not say anything unasked.
SpecUiFair == SpecUi /\ WF_vars(OnMcpMessage) /\ WF_vars(ChildAnswers)

\* ======================================================= the claims
Count(seq, Test(_)) == Cardinality({i \in DOMAIN seq : Test(seq[i])})
IsType(e, t) == e.type = t
IsConnected(e) == IsStatus(e, "connected")
IsMcpMessage(e) == IsType(e, "mcpMessage")
IsClientIdAssigned(e) == IsType(e, "clientIdAssigned")
Last(seq) == seq[Len(seq)]
Opened(id) == pc[id] # "idle"
\* handleSseConnection has run to its end.
Settled(id) == pc[id] \in {"listening", "returned"}
ChildAlive(id) == proc[id] \in {"spawning", "running"}
Registered(id) == id \in clients \/ id \in clientTransports

\* C1: a session whose SSE request closes after it was registered is torn
\* down: once handleSseConnection has run to its end, the session is in
\* neither map and its child has been terminated.
C1_ClosedSinkIsTornDown ==
    \A id \in Ids :
        (reqClosed[id] /\ ~goneAtOpen[id] /\ Settled(id))
            => (~Registered(id) /\ ~ChildAlive(id))

\* C2: for every session the transport is closed at most once and the
\* response is ended at most once, and a cleanupClient for an id that
\* cleanupClient has run for before closes and ends nothing.
C2_CleanupAtMostOnce ==
    [][\A id \in Ids :
          /\ closeCalls'[id] <= 1
          /\ endCalls'[id] <= 1
          /\ id \in cleaned =>
                 (closeCalls'[id] = closeCalls[id] /\ endCalls'[id] = endCalls[id])]_vars

\* C3: on the stream of a session opened with a valid configuration there
\* is at most one 'connected' status and no mcpMessage comes before it.
C3_ConnectedBeforeMcpMessage ==
    \A id \in Ids :
        cfg[id] = GoodConfig =>
            /\ Count(stream[id], IsConnected) <= 1
            /\ \A i \in DOMAIN stream[id] :
                   IsMcpMessage(stream[id][i])
                       => \E j \in 1..(i - 1) : IsConnected(stream[id][j])

\* The transport or the child signals a fatal error of session id.
FatalSignal(id) ==
    \/ TransportError(id)
    \/ TransportClosed(id)
    \/ \E viaOnerror \in BOOLEAN : StartRejected(id, viaOnerror)

\* The Open of session id failed before a child was started.
ConfigFailed(id) == pc[id] = "returned" \/ (pc[id] = "listening" /\ spawnPos[id] = -1)

TerminalIsLast(id) ==
    /\ Count(stream[id], IsTerminal) <= 1
    /\ Count(stream[id], IsTerminal) = 1 =>
           (IsTerminal(Last(stream[id])) /\ ~writable[id] /\ id \notin clients)
    /\ (ConfigFailed(id) /\ openedWritable[id]) => Count(stream[id], IsTerminal) = 1

\* C4: a fatal error of a session whose stream is still open writes exactly
\* one terminal connectionStatus, which is the stream's last event, and
\* ends the stream; no stream ever carries two terminal statuses, whatever
\* fatal signals follow the first.
C4_OneTerminalStatus ==
    [][\A id \in Ids :
          /\ TerminalIsLast(id)'
          /\ (FatalSignal(id) /\ id \in clients /\ writable[id]) =>
                 /\ Count(stream[id], IsTerminal) = 0
                 /\ Count(stream'[id], IsTerminal) = 1
                 /\ Len(stream'[id]) = Len(stream[id]) + 1]_vars

\* onerror has written 'error' and onclose came after it.
C4_Witness ==
    \E id \in Ids :
        /\ proc[id] = "exited"
        /\ closeCalls[id] = 1
        /\ Count(stream[id], IsTerminal) = 1
        /\ IsStatus(Last(stream[id]), "error")

\* C6: what the claim calls an invalid configuration.
InvalidConfig(c) ==
    \/ c.command \in {"absent", "empty"}
    \/ c.args \in {"notJson", "arrayOfNumbers", "object"}
    \/ c.env \in {"notJson", "array", "null", "number"}
    \/ ToLowerCase(c.transport) # "stdio"

\* C6: an Open with an invalid configuration spawns no child, never writes
\* 'connected', writes an 'error' status and leaves the session out of the
\* registry with its stream ended.
C6_InvalidConfigIsRejected ==
    \A id \in Ids :
        (Opened(id) /\ InvalidConfig(cfg[id])) =>
            /\ proc[id] = "none"
            /\ Count(stream[id], IsConnected) = 0
            /\ openedWritable[id] => Count(stream[id], IsTerminal) = 1
            /\ ~Registered(id)
            /\ ~writable[id]

McpPayloads(seq) == SelectSeq(seq, IsMcpMessage)

\* C8: a message the transport hands over while the session is registered
\* and its sink writable is written to the stream as one mcpMessage event
\* with that message as payload, and no other step writes an mcpMessage.
C8_OneMcpMessagePerMessage ==
    [][\A id \in Ids :
          IF emitted'[id] # emitted[id]
          THEN (id \in clients /\ writable[id]) =>
                   stream'[id] = Append(stream[id], McpMessage(Last(emitted'[id])))
          ELSE McpPayloads(stream'[id]) = McpPayloads(stream[id])]_vars

C8_Witness ==
    \E id \in Ids :
        /\ Len(emitted[id]) = 2
        /\ McpPayloads(stream[id]) = <<McpMessage([id |-> 1]), McpMessage([id |-> 2])>>

\* ---- the relay of mcp-communication.ts
IsError(e) == IsStatus(e, "error")
IsStdoutLog(e) == IsType(e, "logMessage") /\ e.payload.source = "stdout"

\* C5: when the child of a session could not be started, the session's
\* stream never carries 'connected', its first event is clientIdAssigned,
\* and once the failure has been reported the stream holds clientIdAssigned
\* and one 'error' status, is ended, and the session is out of the registry.
C5_SpawnFailureIsReported ==
    \A id \in Ids :
        cpSpawnFailed[id] =>
            /\ Count(cpStream[id], IsConnected) = 0
            /\ cpStream[id] # <<>> => IsClientIdAssigned(cpStream[id][1])
            /\ cpProcess[id] \in {"failed", "exited"} =>
                   /\ id \notin cpClients
                   /\ ~cpWritable[id]
                   /\ ~cpReqClosed[id] =>
                          (Len(cpStream[id]) = 2 /\ IsError(cpStream[id][2]))

\* The text of the child's stdout an event of the stream was made from.
EventText(e) == IF IsMcpMessage(e) THEN e.payload.number ELSE e.payload.content

\* Event i of the stream of id was made from the child's stdout.
FromStdout(id, i) == cpFrom[id][i] >= 0

\* C9: the events of a stream that were made from the child's stdout stand
\* on it in the order in which the child wrote their text: each carries the
\* text found at its offset in the child's stdout, and of two such events
\* the later one on the stream has the larger offset.
C9_StdoutOrderIsKept ==
    \A id \in Ids :
        /\ DOMAIN cpFrom[id] = DOMAIN cpStream[id]
        /\ \A i \in DOMAIN cpStream[id] :
               /\ FromStdout(id, i) <=>
                      (IsMcpMessage(cpStream[id][i]) \/ IsStdoutLog(cpStream[id][i]))
               /\ FromStdout(id, i) =>
                      SubSeq(cpStdout[id], cpFrom[id][i] + 1,
                             cpFrom[id][i] + Len(EventText(cpStream[id][i])))
                          = EventText(cpStream[id][i])
        /\ \A i, j \in DOMAIN cpStream[id] :
               (i < j /\ FromStdout(id, i) /\ FromStdout(id, j))
                   => cpFrom[id][i] < cpFrom[id][j]

\* Two lines have been relayed: an mcpMessage and, after it, a stdout
\* logMessage made from the text two characters further on.
C9_Witness ==
    \E id \in Ids :
        \E i \in DOMAIN cpStream[id] :
            /\ i + 1 \in DOMAIN cpStream[id]
            /\ IsMcpMessage(cpStream[id][i])
            /\ IsStdoutLog(cpStream[id][i + 1])
            /\ cpFrom[id][i + 1] = cpFrom[id][i] + 2

\* The lines the child has written to its stdout and ended with a newline,
\* each with its offset.
CompleteLines(id) ==
    LET lines == Split(cpStdout[id])
    IN  {lines[k] : k \in 1..(Len(lines) - 1)}

\* C10: while a session is registered and its sink writable, every line of
\* the child's stdout that is not empty and not valid JSON is on the stream
\* as one stdout logMessage whose content is the line, and no mcpMessage
\* and no connectionStatus was made from any of the line's text.
C10_NonJsonLineIsLogged ==
    \A id \in Ids :
        (id \in cpClients /\ cpWritable[id]) =>
            \A line \in CompleteLines(id) :
                (line.text # <<>> /\ ~IsJson(line.text)) =>
                    /\ \E i \in DOMAIN cpStream[id] :
                           /\ cpStream[id][i] = Event("logMessage", StdoutLog(line.text))
                           /\ cpFrom[id][i] = line.at
                    /\ \A i \in DOMAIN cpStream[id] :
                           (cpFrom[id][i] >= line.at
                                /\ cpFrom[id][i] < line.at + Len(line.text))
                               => IsStdoutLog(cpStream[id][i])

\* ---- the controller: malformed lines
\* C11: a stdout line that is not JSON leaves a running session as it is:
\* still in both maps, its stream open, its transport not closed, its child
\* not terminated; and a JSON line that comes after a malformed one, on a
\* session no peer has closed, is relayed as an mcpMessage.
C11_MalformedLineIsRecoverable ==
    [][\A id \in Ids :
          /\ (badLines'[id] # badLines[id] /\ id \in clients /\ id \in clientTransports
                 /\ writable[id] /\ proc[id] = "running")
                => /\ id \in clients' /\ id \in clientTransports'
                   /\ writable'[id]
                   /\ closeCalls'[id] = closeCalls[id]
                   /\ proc'[id] = "running"
          /\ (emitted'[id] # emitted[id] /\ badLines[id] # <<>> /\ openedWritable[id]
                 /\ ~reqClosed[id] /\ proc[id] \in {"running", "killed"}
                 /\ Count(stream[id], IsTerminal) = 0)
                => stream'[id] = Append(stream[id], McpMessage(Last(emitted'[id])))]_vars

\* ---- the id of a submitted request
\* C12: a body with an explicit id, handed to handlePostRequest or to
\* handleClientMessage, is written to the child with that id, the same in
\* value and type.
C12_ExplicitIdIsKept ==
    (job.done /\ job.fn \in {"handlePostRequest", "handleClientMessage"}
        /\ job.args.shape # "other" /\ job.args.id \in ExplicitIds)
       => (Len(job.result) = 1 /\ job.result[1].id = job.args.id)

\* C13: a body without an id, handed to handlePostRequest or to
\* handleClientMessage, is written to the child with an id the handler
\* generated.
C13_MissingIdIsGenerated ==
    (job.done /\ job.fn \in {"handlePostRequest", "handleClientMessage"}
        /\ job.args.shape # "other" /\ job.args.id = Undefined)
       => (Len(job.result) = 1 /\ job.result[1].id \in {GeneratedId(now) : now \in Clock})

\* ---- POST /mcp-proxy/message
\* The step is a POST that names clientId, with this outcome of send().
Submit(clientId, sendFails) ==
    /\ lastSubmit'.to = clientId
    /\ \E message \in Envelopes : HandleClientMessage(clientId, message, sendFails)

InRegistry(id) == id \in clients /\ id \in clientTransports

\* C14: a POST that names an id the registry does not hold is answered 404;
\* nothing is written to any child or to any stream, and no session's
\* registry entry, transport or stream changes.
C14_UnknownClientIdIsNotFound ==
    [][\A clientId \in AllIds, sendFails \in BOOLEAN :
          (clientId \notin clients /\ Submit(clientId, sendFails))
             => /\ lastSubmit'.status = 404
                /\ childIn' = childIn
                /\ stream' = stream
                /\ clients' = clients /\ clientTransports' = clientTransports
                /\ proc' = proc /\ closeCalls' = closeCalls
                /\ writable' = writable /\ endCalls' = endCalls]_vars

\* The latest POST named an id that is not registered and was answered 404,
\* while another session is registered and its child runs.
C14_Witness ==
    /\ lastSubmit.status = 404
    /\ lastSubmit.to \notin clients
    /\ \E other \in AllIds \ {lastSubmit.to} : InRegistry(other) /\ proc[other] = "running"

\* C15: a POST to a registered session whose child has exited is answered
\* 409 and nothing is written to the child.
C15_TerminatedChildIsUnavailable ==
    [][\A clientId \in AllIds, sendFails \in BOOLEAN :
          (InRegistry(clientId) /\ proc[clientId] = "dead" /\ Submit(clientId, sendFails))
             => /\ lastSubmit'.status = 409
                /\ childIn' = childIn]_vars

\* C16: a POST to a registered session is answered 500 with one commandError
\* event on the session's stream when send() fails, and 200 with no event
\* when it succeeds.
C16_WriteFailureIsReported ==
    [][\A clientId \in AllIds :
          /\ (InRegistry(clientId) /\ Submit(clientId, TRUE))
                => /\ lastSubmit'.status = 500
                   /\ Len(stream'[clientId]) = Len(stream[clientId]) + 1
                   /\ IsType(Last(stream'[clientId]), "commandError")
          /\ (InRegistry(clientId) /\ Submit(clientId, FALSE))
                => /\ lastSubmit'.status = 200
                   /\ stream' = stream]_vars

\* C17: a POST whose send() fails leaves the session registered, its stream
\* open and as it was, and its transport not closed; the next POST to the
\* session, when send() succeeds, is written to the child and answered 200.
C17_WriteFailureIsRecoverable ==
    [][\A clientId \in AllIds :
          /\ (InRegistry(clientId) /\ Submit(clientId, TRUE))
                => /\ InRegistry(clientId)'
                   /\ writable' = writable /\ endCalls' = endCalls
                   /\ closeCalls' = closeCalls /\ proc' = proc
                   /\ stream' = stream
          /\ \A message \in Envelopes :
                (lastSubmit = [to |-> clientId, status |-> 500] /\ InRegistry(clientId)
                    /\ HandleClientMessage(clientId, message, FALSE))
                   => /\ lastSubmit'.status = 200
                      /\ childIn'[clientId] = Append(childIn[clientId], message)]_vars

\* send() has just failed for a session that is registered, with its
\* stream open and its transport not closed.
C17_Witness ==
    /\ lastSubmit.status = 500
    /\ InRegistry(lastSubmit.to)
    /\ writable[lastSubmit.to] /\ endCalls[lastSubmit.to] = 0
    /\ closeCalls[lastSubmit.to] = 0

\* ---- the ids of sessions
\* C18: no two connections are given the same id, and the registry entry
\* of every connection that has not closed is its own.
C18_SessionIdsAreUnique ==
    /\ \A i, j \in DOMAIN issued : i # j => issued[i] # issued[j]
    /\ \A conn \in DOMAIN issued \ closedConns : owner[issued[conn]] = conn

\* ---- sessions side by side
\* C19: a request written to the stdin of a session's child was posted by
\* the client of that session.
C19_SubmitReachesOnlyItsSession ==
    \A id \in AllIds : \A k \in DOMAIN cpChildIn[id] : cpChildIn[id][k] = id

\* ---- the environment of the child
\* C20: the child's environment has a key exactly when one of the three
\* environments has it, with the caller's value if the caller gave one,
\* else the default set's, else the inherited one.
C20_CallerEnvWins ==
    (job.done /\ job.fn \in {"finalEnv", "finalEnvUnfiltered"})
       => \A k \in Keys :
             job.result[k] = IF job.args.queryEnv[k] # "absent" THEN job.args.queryEnv[k]
                             ELSE IF job.args.sdkDefault[k] # "absent" THEN job.args.sdkDefault[k]
                             ELSE job.args.processEnv[k]

\* A merge is done in which all three environments have a key, and another
\* key is in the default set and inherited but not given by the caller.
C20_Witness ==
    /\ job.done /\ job.fn = "finalEnv"
    /\ \E k \in Keys :
          /\ job.args.processEnv[k] = "inherited" /\ job.args.sdkDefault[k] = "default"
          /\ job.args.queryEnv[k] = "caller" /\ job.result[k] = "caller"
    /\ \E k \in Keys :
          /\ job.args.processEnv[k] = "inherited" /\ job.args.sdkDefault[k] = "default"
          /\ job.args.queryEnv[k] = "absent" /\ job.result[k] = "default"

\* ---- McpCommunicationService
Handed == svc.handed

C22_QueuedRequestIsDispatched ==
    \A i \in DOMAIN Handed : Handed[i].queued => Handed[i].posted

\* C23: a request is posted only when its connection has delivered the
\* 'connected' status or the initialization message.
C23_NoDispatchBeforeReady ==
    \A i \in DOMAIN Handed :
        Handed[i].posted => (Handed[i].got = "connected" \/ Handed[i].sawInit)

\* ---- Logger
\* C24: a call of the logger at a level has output exactly when the level
\* is at most the level of the latest setLogLevel (Debug, when there was
\* none).
C24_LevelFiltersOutput ==
    \A i \in DOMAIN logger.calls :
        logger.calls[i].output <=> logger.calls[i].level <= logger.calls[i].setTo

\* After a setLogLevel below Debug, a call at a higher level had no output
\* and a later call at a level not above it had.
C24_Witness ==
    \E i, j \in DOMAIN logger.calls :
        /\ i < j
        /\ logger.calls[i].setTo < LogLevel.Debug
        /\ logger.calls[i].level > logger.calls[i].setTo /\ ~logger.calls[i].output
        /\ logger.calls[j].level <= logger.calls[j].setTo /\ logger.calls[j].output

\* C25: the handler that writes a terminal connectionStatus to the stream of
\* a session ends that stream and removes the id from both maps before it
\* returns; once a stream carries a terminal status nothing more is written
\* to it and no POST is forwarded to the session's child.
C25_TerminalStatusEndsSession ==
    [][\A id \in Ids :
          /\ Count(stream'[id], IsTerminal) > Count(stream[id], IsTerminal) =>
                 /\ ~writable'[id]
                 /\ endCalls'[id] = endCalls[id] + 1
                 /\ ~Registered(id)'
          /\ Count(stream[id], IsTerminal) > 0 =>
                 /\ stream'[id] = stream[id]
                 /\ childIn'[id] = childIn[id]]_vars

\* A POST addressed to a session whose stream ends with a terminal status
\* has been answered 404.
C25_Witness ==
    \E id \in Ids :
        /\ Count(stream[id], IsTerminal) = 1
        /\ lastSubmit = [to |-> id, status |-> 404]
        /\ childIn[id] = <<>>

\* The sink of session id is closed, or the id is not in clients.
SinkGone(id) == id \notin clients \/ ~writable[id]

\* The state leaves nothing of session id: no event was added to any stream,
\* the id is in neither map and its child has been signalled.
TornDown(g, id) ==
    /\ g.stream = stream
    /\ id \notin g.clients
    /\ id \notin g.clientTransports
    /\ g.proc[id] \notin {"spawning", "running"}

\* C26: sendSseMessage for a session whose sink is not writable, or whose id
\* is not in clients, writes nothing and leaves the session torn down: the
\* transport closed and the id in neither map. So do the handlers that call
\* it last: the 'connected' status after start() and the relay of a message
\* of the child.
C26_SendToClosedSinkTearsDown ==
    [][\A id \in Ids :
          SinkGone(id) =>
              /\ TornDown(sendSseMessage(Cur, id, "connectionStatus",
                                         [status |-> "connected"]), id)
              /\ (StartResolved(id) \/ (id \in clients /\ TransportMessage(id))) =>
                     /\ stream' = stream
                     /\ ~Registered(id)'
                     /\ ~ChildAlive(id)']_vars

\* start() has resolved for a session whose sink had closed meanwhile: the
\* 'connected' status was not written and the child was signalled.
C26_Witness ==
    \E id \in Ids :
        /\ pc[id] = "listening"
        /\ spawnPos[id] >= 0
        /\ openedWritable[id]
        /\ ~writable[id]
        /\ proc[id] = "killed"
        /\ closeCalls[id] = 1
        /\ endCalls[id] = 0
        /\ stream[id] = <<ClientIdAssigned(id)>>
        /\ ~Registered(id)

\* handleSseConnection has created the transport of session id.
TransportCreated(id) == pc[id] \in {"starting", "listening"} /\ spawnPos[id] >= 0

\* C27: between two runs of handlers, the id of a session whose transport
\* has been created is in clients if and only if it is in clientTransports.
C27_MapsAgree ==
    \A id \in Ids :
        TransportCreated(id) => (id \in clients <=> id \in clientTransports)

\* C29: a handleSseConnection that goes on to create and start a transport
\* leaves its id in clients: none is created for a session that the
\* clientIdAssigned write has already torn down.
C29_NoTransportForRemovedSession ==
    [][\A id \in Ids :
          (pc[id] = "idle" /\ pc'[id] = "starting") =>
              (id \in clients' \/ id \notin clientTransports')]_vars

\* C30: a POST tears no session down, whatever its clientId and its
\* outcome: no transport is closed, no stream is ended, and clients and
\* clientTransports are as they were.
C30_SubmitTearsNothingDown ==
    [][\A clientId \in Ids \cup {NoId} :
          (lastSubmit'.to = clientId
             /\ \E sendFails \in BOOLEAN : Submit(clientId, sendFails)) =>
              /\ clients' = clients
              /\ clientTransports' = clientTransports
              /\ closeCalls' = closeCalls
              /\ endCalls' = endCalls
              /\ writable' = writable
              /\ proc' = proc]_vars

\* An event the relay makes of a line of the child's stdout.
IsRelayed(e) == e.type \in {"mcpMessage", "logMessage"}

\* The events the 'data' listener makes of everything session id's child has
\* written so far, had it arrived as one chunk on an open stream.
AsOneChunk(id) ==
    onStdoutData([CpCur EXCEPT !.stream[id] = <<>>, !.from[id] = <<>>,
                               !.writable[id] = TRUE],
                 id, cpStdout[id], 0).stream[id]

\* C28: in the relay that spawns the child itself, the mcpMessage and
\* logMessage events on an open stream are those its child's stdout gives
\* when it arrives as one chunk, however the bytes were cut into chunks.
C28_FramingIgnoresChunks ==
    \A id \in Ids :
        cpWritable[id] => SelectSeq(cpStream[id], IsRelayed) = AsOneChunk(id)

\* C31: when shutdown() returns, clients and clientTransports are empty and
\* close() has been called on every transport that was registered, and so
\* not yet closed, when it began.
C31_ShutdownEmptiesRegistry ==
    [][(~shuttingDown /\ shuttingDown') =>
           /\ clients' = {}
           /\ clientTransports' = {}
           /\ \A id \in clientTransports : closeCalls'[id] = closeCalls[id] + 1]_vars

\* C32: once the service has received connectionStatus 'error' on its
\* connection it is not in the connected and initialized state, and no
\* request is posted for that connection afterwards.
C32_ErrorStatusStopsDispatch ==
    /\ svc.got = "error" => ~(svc.isConnected /\ svc.isInitialized)
    /\ \A i \in DOMAIN Handed : ~(Handed[i].got = "error" /\ Handed[i].posted)

\* The EventSources of the service that are open.
OpenSources ==
    {r.conn : r \in {q \in svc.stale : q.es = "open"}}
        \cup (IF svc.es = "open" THEN {svc.conn} ELSE {})

\* An event of a replaced EventSource is handled.
StaleEvent == \E r \in svc.stale : StaleOpen(r) \/ StaleAssigned(r) \/ StaleError(r)

\* C33: whatever connect() and disconnect() calls were made, at most one
\* EventSource of the service is open, and an event of an EventSource that
\* is not the one created last changes neither isConnected, isInitialized
\* nor clientId.
C33_OnlyNewestEventSourceActs ==
    [][/\ Cardinality(OpenSources') <= 1
       /\ StaleEvent =>
              /\ svc'.isConnected = svc.isConnected
              /\ svc'.isInitialized = svc.isInitialized
              /\ svc'.clientId = svc.clientId]_vars

\* C34: a response is handled according to the request it answers: the
\* result of a tools/list goes to renderToolList and the result of a
\* tools/call to displayToolResult.
C34_ResponseGoesToItsRequest ==
    /\ mc.view.of = "listTools" => mc.view.call = "renderToolList"
    /\ mc.view.of = "executeTool" => mc.view.call = "displayToolResult"

\* The k-th request waits in pendingInitializationRequests.
Queued(k) ==
    \E i \in DOMAIN mc.pendingInitializationRequests :
        mc.pendingInitializationRequests[i].id = k

\* C35: a request made through onListTools or onExecuteTool while connected
\* leaves the queue in the end: it is handed to sendRequest, or the
\* connection is closed first.
C35_QueuedRequestIsSentInTheEnd ==
    \A k \in 1..MaxAsks : Queued(k) ~> ~Queued(k)

====
